---------------------------- MODULE Spec2Model ----------------------------
(***************************************************************************)
(* Redundant internal coordinates of pysisyphus/InternalCoordinates.py:    *)
(* bond detection, fragment analysis, angle and dihedral index generation  *)
(* and the assembly order of the Wilson B-matrix.                          *)
(*                                                                         *)
(* Atom indices are 0-based as in the Python source; TLA+ sequences are    *)
(* 1-based, so atom i of a geometry is atoms[i + 1] / coords[i + 1].       *)
(* Lengths are integers of one common unit; a distance d is carried as its *)
(* square d^2 and the scale factor in tenths, so that                      *)
(*      d <= factor * (r1 + r2)   <=>   100 * d^2 <= (F * (r1 + r2))^2     *)
(* is decided exactly.                                                     *)
(***************************************************************************)
EXTENDS Integers, Sequences, FiniteSets, TLC

VARIABLES
    atoms,          \* geom.atoms: the element labels
    coords,         \* geom.coords.reshape(-1, 3): the positions
    factor,         \* argument factor of get_bond_indices, in tenths
    hash_rank,      \* the interpreter's iteration rank of atom indices in a set
    pc,             \* the call that runs next
    raised,         \* the exception that left the entry point, or "none"
    calls,          \* the functions entered so far, in call order
    bond_indices,   \* the array handed to make_fragments, as the caller holds it
    fragments,      \* the fragment list make_fragments printed
    flagged,        \* make_fragments printed its more-than-one-fragment notice
    bond_inds,      \* value returned by get_bond_indices
    bend_inds,      \* value returned by get_bending_indices
    dihedral_inds,  \* value returned by get_dihedral_indices
    B_mat,          \* the rows of the returned B-matrix, with builder and indices
    previous,       \* the outcome of the earlier call of get_B_mat, if any
    save,           \* argument save of get_B_mat
    tm_format,      \* argument tm_format of get_B_mat
    files,          \* the files written so far
    rounding,       \* how the float arithmetic rounds a dot product of +-1
    bond_iter,      \* make_fragments: the bonds the outer loop has left
    fragment_pos    \* make_fragments: the position of the inner loop's iterator

vars == <<atoms, coords, factor, hash_rank, pc, raised, calls, bond_indices,
          fragments, flagged, bond_inds, bend_inds, dihedral_inds, B_mat,
          previous, save, tm_format, files, rounding, bond_iter, fragment_pos>>

-----------------------------------------------------------------------------
(* Bounds *)

\* largest number of atoms of a geometry handed to get_B_mat
MaxAtoms == 4
\* largest number of atoms of a geometry handed to get_bond_indices directly
MaxAtomsBond == 3
\* largest number of atoms in a bond list handed to make_fragments directly
MaxAtomsFrag == 4
\* largest number of atoms in a bond list handed to get_bending_indices directly
MaxAtomsBend == 4
\* largest number of bonds in a bond list handed to get_bending_indices directly
MaxBondsBend == 5
\* number of positions of PointTable an atom can take in a geometry handed
\* to get_bond_indices directly
NumPointsBond == 3

\* largest number of atoms in a bond list handed to get_bending_indices and
\* get_dihedral_indices in turn
MaxAtomsDihed == 5
\* largest number of bonds in such a bond list
MaxBondsDihed == 4

\* number of atoms of a geometry handed to a row builder directly
MaxAtomsRow == 5

\* largest number of atoms in a bond list handed to make_fragments when its
\* loops are followed statement by statement
MaxAtomsLoop == 5
\* largest number of bonds in such a bond list
MaxBondsLoop == 4

\* largest number of atoms of a geometry handed to get_B_mat together with
\* the arguments save and tm_format
MaxAtomsSave == 4

\* default of the parameter factor, in tenths
DefaultFactor == 13

\* values of the parameter factor that are tried, in tenths
Factors == {10, DefaultFactor}

\* element labels as a geometry carries them; "Xx" is no element
Labels == {"H", "o", "Xx"}

\* number of positions an atom can take
NumPoints == 4

\* the positions, in the model's length unit.  A-B, C-D and A-E are 13
\* apart, B-C is 25 apart, B-E is sqrt(288), every other pair is more than
\* 30 apart
PointTable ==
    << <<0, 0, 0>>, <<5, 12, 0>>, <<30, 12, 0>>, <<35, 24, 0>>,
       <<5, 0, 12>>, <<70, 0, 0>> >>

Points == {PointTable[k] : k \in 1..NumPoints}

PointsBond == {PointTable[k] : k \in 1..NumPointsBond}

-----------------------------------------------------------------------------
(* The geometry and the covalent radii *)

\* str.lower() on the labels that occur
lower(label) ==
    CASE label = "H" -> "h"
      [] label = "O" -> "o"
      [] label = "Xx" -> "xx"
      [] OTHER -> label

\* pysisyphus.elem_data.COVALENT_RADII, keyed by lower-case symbol
CR == [h |-> 5, o |-> 10]

\* variant: a lookup that never fails (CR.get(key, 0))
KeyMissing_never(key) == FALSE

\* CR[key] raises KeyError
KeyMissing(key) == key \notin DOMAIN CR

\* CR[key] where the key is present
Radius(key) == IF key \in DOMAIN CR THEN CR[key] ELSE 0

\* set(seq) of a tuple or array row
as_set(tpl) == {tpl[k] : k \in 1..Len(tpl)}

\* squared entry of pdist(coords) for the points p and q
Dist2(p, q) ==
    (p[1] - q[1]) * (p[1] - q[1]) + (p[2] - q[2]) * (p[2] - q[2])
        + (p[3] - q[3]) * (p[3] - q[3])

\* itertools.combinations(range(n), 2) from the pair (i, j) on
RECURSIVE combinations(_, _, _)
combinations(i, j, n) ==
    IF i >= n - 1 THEN <<>>
    ELSE IF j >= n THEN combinations(i + 1, i + 2, n)
    ELSE <<<<i, j>>>> \o combinations(i, j + 1, n)

\* atom_indices of get_bond_indices
atom_indices(n) == combinations(0, 1, n)

\* variant: the radius of the first atom taken twice
cov_rad_sum_first(at, f, i, j) ==
    f * (Radius(lower(at[i + 1])) + Radius(lower(at[i + 1])))

\* cov_rad_sum of the pair (i, j), in tenths: factor * (cov_rad1 + cov_rad2)
cov_rad_sum(at, f, i, j) ==
    f * (Radius(lower(at[i + 1])) + Radius(lower(at[j + 1])))

\* one entry of bond_flags = cdm <= cov_rad_sums
bond_flag(at, co, f, i, j) ==
    100 * Dist2(co[i + 1], co[j + 1])
        <= cov_rad_sum(at, f, i, j) * cov_rad_sum(at, f, i, j)

\* the loop over atom_indices raises KeyError at the first missing radius
lookup_raises(at) ==
    \E pair \in as_set(atom_indices(Len(at))) :
        \/ KeyMissing(lower(at[pair[1] + 1]))
        \/ KeyMissing(lower(at[pair[2] + 1]))

\* atom_indices[bond_flags]: the flagged pairs, in the order of atom_indices
RECURSIVE masked(_, _, _, _)
masked(pairs, at, co, f) ==
    IF pairs = <<>> THEN <<>>
    ELSE (IF bond_flag(at, co, f, Head(pairs)[1], Head(pairs)[2])
          THEN <<Head(pairs)>> ELSE <<>>)
         \o masked(Tail(pairs), at, co, f)

-----------------------------------------------------------------------------
(* make_fragments *)

\* variant: a fragment that the bond touches is not extended by it
RECURSIVE fragment_loop_no_union(_, _, _)
fragment_loop_no_union(frags, k, bi_set) ==
    IF k > Len(frags) THEN frags
    ELSE IF bi_set \cap frags[k] # {}
         THEN fragment_loop_no_union(frags, k + 1, bi_set)
         ELSE fragment_loop_no_union(Append(frags, bi_set), k + 1, bi_set)

\* for fragment in fragments: the list iterator stands at position k of a
\* list that the loop body may extend
RECURSIVE fragment_loop(_, _, _)
fragment_loop(frags, k, bi_set) ==
    IF k > Len(frags) THEN frags
    ELSE IF bi_set \cap frags[k] # {}
         THEN fragment_loop([frags EXCEPT ![k] = @ \cup bi_set], k + 1, bi_set)
         ELSE fragment_loop(Append(frags, bi_set), k + 1, bi_set)

\* variant: an empty set appended for a fragment that the bond misses
fragment_body_append_empty(frags, k, bi_set) ==
    IF bi_set \cap frags[k] # {} THEN [frags EXCEPT ![k] = @ \cup bi_set]
    ELSE Append(frags, {})

\* variant: the bond unioned into every fragment, touched or not
fragment_body_union_always(frags, k, bi_set) ==
    [frags EXCEPT ![k] = @ \cup bi_set]

\* one pass through the body of "for fragment in fragments", the iterator
\* at position k
fragment_body(frags, k, bi_set) ==
    IF bi_set \cap frags[k] # {} THEN [frags EXCEPT ![k] = @ \cup bi_set]
    ELSE Append(frags, bi_set)

\* for bi in bond_indices_list
RECURSIVE bond_loop(_, _)
bond_loop(frags, bond_indices_list) ==
    IF bond_indices_list = <<>> THEN frags
    ELSE bond_loop(fragment_loop(frags, 1, {Head(bond_indices_list)[1],
                                            Head(bond_indices_list)[2]}),
                   Tail(bond_indices_list))

\* variant: pop(0) on the caller's list instead of on a copy
after_pop_in_place(bi) == Tail(bi)

\* the caller's array after bond_indices_list = list(bond_indices) and pop(0)
after_pop(bi) == bi

\* make_fragments(geom, bond_indices): what it raises, the fragment list it
\* prints, whether it prints its notice, and the caller's array afterwards
make_fragments(bi) ==
    IF bi = <<>>
    THEN [raised |-> "IndexError", fragments |-> <<>>, flagged |-> FALSE,
          bond_indices |-> bi]
    ELSE LET frags == bond_loop(<<{bi[1][1], bi[1][2]}>>, Tail(bi))
         IN  [raised |-> "none", fragments |-> frags,
              flagged |-> Len(frags) # 1, bond_indices |-> after_pop(bi)]

-----------------------------------------------------------------------------
(* Iteration of Python sets *)

\* A set is iterated in the order of its hash table.  An int hashes to a
\* rank that hash_rank gives; rank[i + 1] is the rank of atom index i.
rank_of(rank, i) == rank[i + 1]

\* iter() of a set of atom indices: ascending rank
RECURSIVE iter_ints(_, _)
iter_ints(S, rank) ==
    IF S = {} THEN <<>>
    ELSE LET first == CHOOSE x \in S :
                          \A y \in S : rank_of(rank, x) <= rank_of(rank, y)
         IN  <<first>> \o iter_ints(S \ {first}, rank)

\* a frozenset of indices comes before another one if its members, in
\* iteration order, come first lexicographically
set_before(s, t, rank) ==
    LET a == iter_ints(s, rank)
        b == iter_ints(t, rank)
    IN  \/ rank_of(rank, a[1]) < rank_of(rank, b[1])
        \/ /\ a[1] = b[1]
           /\ \/ Len(a) = 1
              \/ /\ Len(b) > 1
                 /\ rank_of(rank, a[2]) <= rank_of(rank, b[2])

\* iter() of a set of frozensets of atom indices
RECURSIVE iter_sets(_, _)
iter_sets(SS, rank) ==
    IF SS = {} THEN <<>>
    ELSE LET first == CHOOSE s \in SS : \A t \in SS : set_before(s, t, rank)
         IN  <<first>> \o iter_sets(SS \ {first}, rank)

-----------------------------------------------------------------------------
(* get_bending_indices and sort_by_central *)

\* variant: the central index put first
central_tuple_first(terminal1, central, terminal2) ==
    <<central, terminal1, terminal2>>

\* the tuple sort_by_central builds from the two terminals and the central
central_tuple(terminal1, central, terminal2) ==
    <<terminal1, central, terminal2>>

\* sort_by_central(set1, set2): the assertion, the unpacking of the two
\* terminals in set-iteration order, and the returned triple
sort_by_central(set1, set2, rank) ==
    LET central_set == set1 \cap set2
        union == set1 \cup set2
        terminals == iter_ints(union \ central_set, rank)
    IN  IF Cardinality(central_set) # 1
        THEN [raised |-> "AssertionError", as_tpl |-> <<>>]
        ELSE IF Len(terminals) # 2
        THEN [raised |-> "ValueError", as_tpl |-> <<>>]
        ELSE [raised |-> "none",
              as_tpl |-> central_tuple(terminals[1],
                                       CHOOSE c \in central_set : TRUE,
                                       terminals[2])]

\* variant: bonds that share no atom pass the test as well
forms_angle_loose(bond_set1, bond_set2) ==
    Cardinality(bond_set1 \cup bond_set2) >= 3

\* the test of get_bending_indices on a pair of bond sets
forms_angle(bond_set1, bond_set2) ==
    Cardinality(bond_set1 \cup bond_set2) = 3

\* for bond_set1, bond_set2 in itertools.combinations(bond_sets, 2), from
\* the k-th combination on; seq is the iteration order of bond_sets
RECURSIVE bending_loop(_, _, _, _, _)
bending_loop(seq, combos, k, rank, bending_indices) ==
    IF k > Len(combos) THEN [raised |-> "none", value |-> bending_indices]
    ELSE LET bond_set1 == seq[combos[k][1] + 1]
             bond_set2 == seq[combos[k][2] + 1]
         IN  IF forms_angle(bond_set1, bond_set2)
             THEN LET r == sort_by_central(bond_set1, bond_set2, rank)
                  IN  IF r.raised # "none"
                      THEN [raised |-> r.raised, value |-> <<>>]
                      ELSE bending_loop(seq, combos, k + 1, rank,
                                        Append(bending_indices, r.as_tpl))
             ELSE bending_loop(seq, combos, k + 1, rank, bending_indices)

\* variant: bending_indices is a list made once and kept between calls
get_bending_indices_kept(bonds, rank) ==
    LET bond_sets == {as_set(bonds[k]) : k \in 1..Len(bonds)}
        seq == iter_sets(bond_sets, rank)
    IN  bending_loop(seq, atom_indices(Len(seq)), 1, rank, bend_inds)

\* get_bending_indices(bond_indices)
get_bending_indices(bonds, rank) ==
    LET bond_sets == {as_set(bonds[k]) : k \in 1..Len(bonds)}
        seq == iter_sets(bond_sets, rank)
    IN  bending_loop(seq, atom_indices(Len(seq)), 1, rank, <<>>)

-----------------------------------------------------------------------------
(* get_dihedral_indices *)

\* variant: the position of the shared atom in the bond taken as 0
index_of_first(bond, x) == 0

\* list(bond).index(intersect), 0-based
index_of(bond, x) == IF bond[1] = x THEN 0 ELSE 1

\* variant: only a bond at the first outer atom of the angle passes
forms_dihedral_first_outer(bond, bend) ==
    /\ bend[1] \in as_set(bond)
    /\ bend[3] \notin as_set(bond)
    /\ bend[2] \notin as_set(bond)

\* variant: a bond that contains the central atom passes as well
forms_dihedral_no_central(bond, bend) ==
    Cardinality({bend[1], bend[3]} \cap as_set(bond)) = 1

\* the test of get_dihedral_indices on a (bond, bend) pair
forms_dihedral(bond, bend) ==
    /\ Cardinality({bend[1], bend[3]} \cap as_set(bond)) = 1
    /\ bend[2] \notin as_set(bond)

\* variant: the terminal atom always put in front
dihedral_ind_prepend(bond, bend) ==
    LET intersect == CHOOSE x \in as_set(bond) \cap as_set(bend) : TRUE
        terminal == bond[(1 - index_of(bond, intersect)) + 1]
    IN  <<terminal>> \o bend

\* dihedral_ind of a (bond, bend) pair that passed the test
dihedral_ind(bond, bend) ==
    LET intersect == CHOOSE x \in as_set(bond) \cap as_set(bend) : TRUE
        terminal == bond[(1 - index_of(bond, intersect)) + 1]
    IN  IF intersect = bend[1] THEN <<terminal>> \o bend
        ELSE bend \o <<terminal>>

\* variant: the candidate looked up as a list (dihedral_ind in dihedral_inds)
in_dihedral_sets_as_list(inds, cand) == \E d \in 1..Len(inds) : inds[d] = cand

\* dihedral_set in dihedral_sets: dihedral_sets holds the atom set of every
\* entry of dihedral_inds
in_dihedral_sets(inds, cand) ==
    \E d \in 1..Len(inds) : as_set(inds[d]) = as_set(cand)

\* for bond, bend in itertools.product(bond_inds, bend_inds), from the k-th
\* pair on (k counts from 0, bond-major)
RECURSIVE dihedral_loop(_, _, _, _)
dihedral_loop(bonds, bends, k, inds) ==
    IF k >= Len(bonds) * Len(bends) THEN inds
    ELSE LET bond == bonds[(k \div Len(bends)) + 1]
             bend == bends[(k % Len(bends)) + 1]
         IN  IF /\ forms_dihedral(bond, bend)
                /\ ~in_dihedral_sets(inds, dihedral_ind(bond, bend))
             THEN dihedral_loop(bonds, bends, k + 1,
                                Append(inds, dihedral_ind(bond, bend)))
             ELSE dihedral_loop(bonds, bends, k + 1, inds)

\* get_dihedral_indices(bond_inds, bend_inds)
get_dihedral_indices(bonds, bends) == dihedral_loop(bonds, bends, 0, <<>>)

-----------------------------------------------------------------------------
(* get_bond_indices and get_B_mat *)

\* get_bond_indices(geom, factor): what it raises, the functions it enters,
\* the array it hands to make_fragments, what make_fragments prints, and
\* the returned value
get_bond_indices(at, co, f) ==
    IF lookup_raises(at)
    THEN [raised |-> "KeyError", calls |-> <<"get_bond_indices">>,
          bond_indices |-> <<>>, fragments |-> <<>>, flagged |-> FALSE,
          value |-> <<>>]
    ELSE LET found == masked(atom_indices(Len(at)), at, co, f)
             mf == make_fragments(found)
         IN  [raised |-> mf.raised,
              calls |-> <<"get_bond_indices", "make_fragments">>,
              bond_indices |-> mf.bond_indices,
              fragments |-> mf.fragments,
              flagged |-> mf.flagged,
              value |-> IF mf.raised = "none" THEN mf.bond_indices ELSE <<>>]

-----------------------------------------------------------------------------
(* The row builders get_bond_B, get_angle_B and get_dihedral_B *)

(***************************************************************************)
(* A row is carried in exact arithmetic.  It is a record                   *)
(*      [root |-> q, blocks |-> <<block of atom 0, block of atom 1, ...>>] *)
(* in which a block is a sequence of terms [sign, num, den] and stands for *)
(* the 3-vector                                                            *)
(*      (sum of sign * num / den over its terms) / sqrt(q);                *)
(* the empty sequence is the block (0, 0, 0) that np.zeros_like wrote.     *)
(* A term is one of the vectors the builder has computed (bond_normed,     *)
(* first_term, second_term, third_term), so a block lists what the builder *)
(* assigned to it.  A quotient whose divisor is zero (q = 0 or den = 0) is *)
(* NaN or Inf: numpy divides float64 by zero without raising.              *)
(***************************************************************************)

\* p - q, p . q and p x q of 3-vectors
Sub(p, q) == <<p[1] - q[1], p[2] - q[2], p[3] - q[3]>>

Dot(p, q) == p[1] * q[1] + p[2] * q[2] + p[3] * q[3]

Cross(p, q) ==
    <<p[2] * q[3] - p[3] * q[2], p[3] * q[1] - p[1] * q[3],
      p[1] * q[2] - p[2] * q[1]>>

\* s * p for a scalar s
Scale(s, p) == <<s * p[1], s * p[2], s * p[3]>>

\* the term +num/den or -num/den
Term(sign, num, den) == [sign |-> sign, num |-> num, den |-> den]

\* variant: an array that is not cleared (np.ones_like)
zeros_like_ones(co) == [k \in 1..Len(co) |-> <<Term(1, <<1, 1, 1>>, 1)>>]

\* np.zeros_like(coords): one zero block per atom
zeros_like(co) == [k \in 1..Len(co) |-> <<>>]

\* row.flatten(): the length of the flat row, three entries per block
flatten_len(row) == 3 * Len(row.blocks)

\* variant: the bond taken from m to n
bond_vector_reversed(co, n, m) == Sub(co[n + 1], co[m + 1])

\* bond = coords[m] - coords[n]
bond_vector(co, n, m) == Sub(co[m + 1], co[n + 1])

\* get_bond_B(geom, bond_ind): bond_normed = bond / bond_length is the term
\* bond / sqrt(bond . bond)
get_bond_B(co, bond_ind) ==
    LET n == bond_ind[1]
        m == bond_ind[2]
        bond == bond_vector(co, n, m)
    IN  [root |-> Dot(bond, bond),
         blocks |-> [zeros_like(co) EXCEPT ![m + 1] = <<Term(1, bond, 1)>>,
                                           ![n + 1] = <<Term(-1, bond, 1)>>]]

\* are_parallel(vec1, vec2) for vec1 = n1 / sqrt(q1) and vec2 = n2 / sqrt(q2):
\* arccos(vec1 . vec2) > pi - thresh.  For integer n1, n2 of the sizes used
\* here the dot product is within the threshold of -1 only when it is -1.
are_parallel(n1, q1, n2, q2) ==
    /\ Dot(n1, n2) < 0
    /\ Dot(n1, n2) * Dot(n1, n2) = q1 * q2

\* tmp_vec of get_angle_B for u = U / sqrt(a) and v = V / sqrt(b)
tmp_vec(U, a, V, b) ==
    LET par == /\ are_parallel(U, a, <<1, -1, 1>>, 1)
               /\ are_parallel(V, b, <<1, -1, 1>>, 1)
    IN  IF par THEN <<-1, 1, 1>> ELSE <<1, -1, 1>>

\* w_dash of get_angle_B up to a positive factor
w_dash(U, a, V, b) ==
    IF are_parallel(U, a, V, b) THEN Cross(U, tmp_vec(U, a, V, b))
    ELSE Cross(U, V)

\* variant: the second term added to the central block
angle_central_plus(first_term, second_term) ==
    <<[first_term EXCEPT !.sign = -1], second_term>>

\* row[o,:] = -first_term - second_term
angle_central(first_term, second_term) ==
    <<[first_term EXCEPT !.sign = -1], [second_term EXCEPT !.sign = -1]>>

\* get_angle_B(geom, angle_ind): with w = W / sqrt(W . W),
\* first_term = (U x W) / (a sqrt(W . W)) and
\* second_term = (W x V) / (b sqrt(W . W))
get_angle_B(co, angle_ind) ==
    LET m == angle_ind[1]
        o == angle_ind[2]
        n == angle_ind[3]
        U == Sub(co[m + 1], co[o + 1])
        V == Sub(co[n + 1], co[o + 1])
        a == Dot(U, U)
        b == Dot(V, V)
        W == w_dash(U, a, V, b)
        first_term == Term(1, Cross(U, W), a)
        second_term == Term(1, Cross(W, V), b)
    IN  [root |-> Dot(W, W),
         blocks |-> [zeros_like(co) EXCEPT
                         ![m + 1] = <<first_term>>,
                         ![o + 1] = angle_central(first_term, second_term),
                         ![n + 1] = <<second_term>>]]

\* variant: the third term left out of the block of p
dihedral_p_no_third(second_term, third_u, third_v) == <<second_term>>

\* row[p,:] = second_term - third_term, third_term = third_u - third_v
dihedral_p(second_term, third_u, third_v) ==
    <<second_term, [third_u EXCEPT !.sign = -1], third_v>>

\* row[o,:] = -first_term + third_term
dihedral_o(first_term, third_u, third_v) ==
    <<[first_term EXCEPT !.sign = -1], third_u, [third_v EXCEPT !.sign = -1]>>

\* how the float64 dot product of two unit vectors along one line comes
\* out: +-1 itself, or one rounding step inside or outside of [-1, 1]
Roundings == {"exact", "inside", "outside"}

\* the vector has one component other than zero, so that the division by
\* its norm gives +-1 and 0 without a rounding error
AxisAligned(P) == Cardinality({i \in 1..3 : P[i] # 0}) = 1

\* np.sin(np.arccos(p.dot(q)))**2 for the unit vectors p, q of P, Q, times
\* (P . P) (Q . Q).  Off the line it is |P x Q|^2.  On the line the cross
\* product is zero and the divisor decides whether the quotient is finite:
\* a zero vector makes p or q NaN; a dot product outside [-1, 1] makes
\* arccos NaN; arccos(1) is 0 and sin(0)**2 is 0, a division by zero;
\* arccos(-1) is the float pi and sin(pi)**2 is about 1.5e-32, not zero,
\* as is sin**2 of arccos of a value just inside [-1, 1].  The value
\* returned for a divisor that is not zero on the line is 1: only that the
\* quotient is finite is meant, its numerator is rounding noise.
sin2(P, Q, rnd) ==
    LET PxQ == Cross(P, Q)
        how == IF AxisAligned(P) THEN "exact" ELSE rnd
    IN  IF Dot(PxQ, PxQ) # 0 THEN Dot(PxQ, PxQ)
        ELSE IF Dot(P, P) = 0 \/ Dot(Q, Q) = 0 THEN 0
        ELSE IF how = "outside" THEN 0
        ELSE IF how = "inside" THEN 1
        ELSE IF Dot(P, Q) < 0 THEN 1
        ELSE 0

\* get_dihedral_B(geom, dihedral_ind): with c = W . W, Su = |U x W|^2 and
\* Sv = |V x W|^2, sin2_u = Su / (a c) and sin2_v = Sv / (b c), so that
\*   first_term  = c (U x W) / (Su sqrt(c)),
\*   second_term = c (V x W) / (Sv sqrt(c)),
\*   third_term  = ((U . W) (U x W) / Su - (W . V) (V x W) / Sv) / sqrt(c)
get_dihedral_B(co, ind) ==
    LET m == ind[1]
        o == ind[2]
        p == ind[3]
        n == ind[4]
        U == Sub(co[m + 1], co[o + 1])
        V == Sub(co[n + 1], co[p + 1])
        W == Sub(co[p + 1], co[o + 1])
        c == Dot(W, W)
        uxw == Cross(U, W)
        vxw == Cross(V, W)
        Su == sin2(U, W, rounding)
        Sv == sin2(V, W, rounding)
        first_term == Term(1, Scale(c, uxw), Su)
        second_term == Term(1, Scale(c, vxw), Sv)
        third_u == Term(1, Scale(Dot(U, W), uxw), Su)
        third_v == Term(1, Scale(Dot(W, V), vxw), Sv)
    IN  [root |-> c,
         blocks |-> [zeros_like(co) EXCEPT
                         ![m + 1] = <<first_term>>,
                         ![n + 1] = <<[second_term EXCEPT !.sign = -1]>>,
                         ![o + 1] = dihedral_o(first_term, third_u, third_v),
                         ![p + 1] = dihedral_p(second_term, third_u, third_v)]]

\* [get_bond_B(geom, ind) for ind in bond_inds] and the two other list
\* comprehensions of get_B_mat: the row, the builder that made it and the
\* indices it was made for
bond_rows(co, inds) ==
    [k \in 1..Len(inds) |->
        [builder |-> "get_bond_B", ind |-> inds[k],
         row |-> get_bond_B(co, inds[k])]]

bend_rows(co, inds) ==
    [k \in 1..Len(inds) |->
        [builder |-> "get_angle_B", ind |-> inds[k],
         row |-> get_angle_B(co, inds[k])]]

dihed_rows(co, inds) ==
    [k \in 1..Len(inds) |->
        [builder |-> "get_dihedral_B", ind |-> inds[k],
         row |-> get_dihedral_B(co, inds[k])]]

\* variant: the angle rows stacked first
B_rows_bends_first(co, bonds, bends, diheds) ==
    bend_rows(co, bends) \o bond_rows(co, bonds) \o dihed_rows(co, diheds)

\* np.array((*bond_rows, *bend_rows, *dihed_rows))
B_rows(co, bonds, bends, diheds) ==
    bond_rows(co, bonds) \o bend_rows(co, bends) \o dihed_rows(co, diheds)

-----------------------------------------------------------------------------
(* The serialization of get_B_mat *)

\* Python's None as an argument value
None == "None"

\* if save: None and the empty string are false, a file name is true
truthy(arg) == arg \notin {None, ""}

\* np.savetxt(save, B_mat, fmt="% 1.4f"): one line per row of the matrix,
\* one fixed-point field per entry
savetxt(fname, X) ==
    [name |-> fname, layout |-> "% 1.4f", lines |-> Len(X),
     fields |-> [k \in 1..Len(X) |-> flatten_len(X[k].row)]]

\* tm_str written to save + ".tm": per row a line "column" and one line
\* "atom" with three fields for every atom of row.reshape(-1, 3)
tm_str(fname, X) ==
    [name |-> fname \o ".tm", layout |-> "column/atom", lines |-> Len(X),
     fields |-> [k \in 1..Len(X) |-> Len(X[k].row.blocks)]]

\* variant: the annotated dump written whenever save is given
written_tm_always(save_arg, tm_arg, X) ==
    IF truthy(save_arg) THEN {savetxt(save_arg, X), tm_str(save_arg, X)}
    ELSE {}

\* the files that the block "if save:" of get_B_mat writes; tm_format is
\* a bool
written(save_arg, tm_arg, X) ==
    IF truthy(save_arg)
    THEN {savetxt(save_arg, X)}
             \cup (IF tm_arg THEN {tm_str(save_arg, X)} ELSE {})
    ELSE {}

\* variant: the matrix handed back as it was formatted for the dump
returned_as_saved(X, save_arg) == IF truthy(save_arg) THEN <<>> ELSE X

\* return B_mat: the array of line 219, which the block "if save:" only reads
returned(X, save_arg) == X

-----------------------------------------------------------------------------
(* Inputs *)

\* every geometry of n atoms at the positions PointsBond, two atoms at one
\* position included
Geometries(n) == [at : [1..n -> Labels], co : [1..n -> PointsBond]]

\* every geometry of n atoms in which no two atoms share a position
Molecules(n) ==
    [at : [1..n -> Labels],
     co : {c \in [1..n -> Points] : \A a, b \in 1..n : c[a] = c[b] => a = b}]

\* water: the oxygen and two hydrogens, each within the threshold of the
\* oxygen and the two not within the threshold of each other
h2o ==
    [at |-> <<"O", "H", "H">>,
     co |-> <<PointTable[1], PointTable[2], PointTable[5]>>]

\* hydrogen peroxide: the chain H-O-O-H
h2o2 ==
    [at |-> <<"H", "O", "O", "H">>,
     co |-> <<PointTable[1], PointTable[2], PointTable[3], PointTable[4]>>]

\* the geometry g with its atoms listed in the order perm
renumbered(g, perm) ==
    [at |-> [k \in 1..Len(g.at) |-> g.at[perm[k]]],
     co |-> [k \in 1..Len(g.co) |-> g.co[perm[k]]]]

\* the positions of a geometry handed to a row builder directly: two lines
\* through the origin, one of them along (1, -1, 1)
RowPoints ==
    {<<0, 0, 0>>, <<1, 0, 0>>, <<-1, 0, 0>>, <<1, -1, 1>>, <<-1, 1, -1>>}

\* every geometry of n hydrogen atoms at these positions, two or more atoms
\* at one position included
RowGeometries(n) == [at : {[k \in 1..n |-> "H"]}, co : [1..n -> RowPoints]]

\* the index tuples of k atoms handed to a row builder: k consecutive atoms
\* of the n, in ascending or in descending order
IndexTuples(k, n) ==
    {[i \in 1..k |-> first + i - 1] : first \in 0..(n - k)}
        \cup {[i \in 1..k |-> first + k - i] : first \in 0..(n - k)}

\* the rank under which a set of ints is iterated in ascending order
identity_rank(n) == [k \in 1..n |-> k]

\* the rank under which a set of ints is iterated in descending order
reverse_rank(n) == [k \in 1..n |-> n + 1 - k]

\* every rank of n atom indices
Ranks(n) == {r \in [1..n -> 1..n] : \A a, b \in 1..n : r[a] = r[b] => a = b}

\* the pairs of S in the order of the sequence pairs
RECURSIVE select(_, _)
select(pairs, S) ==
    IF pairs = <<>> THEN <<>>
    ELSE (IF Head(pairs) \in S THEN <<Head(pairs)>> ELSE <<>>)
         \o select(Tail(pairs), S)

\* every bond array that get_bond_indices can hand on for n atoms: a subset
\* of the ascending pairs, in the order of atom_indices
BondArrays(n) ==
    {select(atom_indices(n), S) : S \in SUBSET as_set(atom_indices(n))}

-----------------------------------------------------------------------------
(* What a call leaves of the caller's objects *)

\* variant: the row is the view of geom.coords itself, so that what the
\* last builder assigned to its blocks stays in the geometry
geom_coords_as_row(co, rows) ==
    IF rows = <<>> THEN co
    ELSE [a \in 1..Len(co) |->
             IF rows[Len(rows)].row.blocks[a] = <<>> THEN co[a]
             ELSE rows[Len(rows)].row.blocks[a][1].num]

\* geom.coords after the row builders have made rows: coords is a view of
\* geom.coords that is only read, the assignments go to row, the array
\* that np.zeros_like(coords) has made
geom_coords(co, rows) == co

\* variant: the lists and the matrix are objects kept between the calls,
\* so that a result handed out earlier holds what a later call adds
caller_keeps_shared(prev, field, value) ==
    IF prev = <<>> THEN prev
    ELSE <<[prev[1] EXCEPT ![field] = @ \o value]>>

\* what the caller holds of an earlier call once a later call has made
\* value for the same field: every call makes its lists and arrays anew
\* (list(), np.array(...)), so the earlier result is what it was
caller_keeps(prev, field, value) == prev

-----------------------------------------------------------------------------
(* The actions *)

\* bond_inds = get_bond_indices(geom, factor)
GetBondIndices ==
    /\ pc = "get_bond_indices"
    /\ \E r \in {get_bond_indices(atoms, coords, factor)} :
           /\ raised' = r.raised
           /\ calls' = calls \o r.calls
           /\ bond_indices' = r.bond_indices
           /\ fragments' = r.fragments
           /\ flagged' = r.flagged
           /\ bond_inds' = r.value
           /\ previous' = caller_keeps(previous, "bond_inds", r.value)
           /\ pc' = IF r.raised = "none" THEN "get_bending_indices"
                    ELSE "raised"
    /\ UNCHANGED <<save, tm_format, files, rounding, bond_iter, fragment_pos>>
    /\ UNCHANGED <<atoms, coords, factor, hash_rank, bend_inds, dihedral_inds,
                   B_mat>>

\* make_fragments(geom, bond_indices) called on its own
MakeFragments ==
    /\ pc = "make_fragments"
    /\ \E r \in {make_fragments(bond_indices)} :
           /\ raised' = r.raised
           /\ bond_indices' = r.bond_indices
           /\ fragments' = r.fragments
           /\ flagged' = r.flagged
           /\ pc' = IF r.raised = "none" THEN "returned" ELSE "raised"
    /\ calls' = Append(calls, "make_fragments")
    /\ UNCHANGED <<save, tm_format, files, rounding, bond_iter, fragment_pos>>
    /\ UNCHANGED <<previous, atoms, coords, factor, hash_rank, bond_inds,
                   bend_inds, dihedral_inds, B_mat>>

\* make_fragments, statement by statement: the copy of the bond array, the
\* pop of the first bond and the first fragment
PopFirst ==
    /\ pc = "make_fragments"
    /\ calls' = Append(calls, "make_fragments")
    /\ IF bond_indices = <<>>
       THEN /\ raised' = "IndexError"
            /\ pc' = "raised"
            /\ UNCHANGED <<bond_indices, fragments, bond_iter, fragment_pos>>
       ELSE /\ bond_indices' = after_pop(bond_indices)
            /\ fragments' = <<as_set(bond_indices[1])>>
            /\ bond_iter' = Tail(bond_indices)
            /\ fragment_pos' = 1
            /\ pc' = IF Tail(bond_indices) = <<>> THEN "report"
                     ELSE "for_fragment"
            /\ UNCHANGED raised
    /\ UNCHANGED <<save, tm_format, files, rounding, previous, atoms, coords,
                   factor, hash_rank, flagged, bond_inds, bend_inds,
                   dihedral_inds, B_mat>>

\* the body of the inner loop for the bond bi = Head(bond_iter) and the
\* fragment the iterator stands at; the iterator moves on
ForFragment ==
    /\ pc = "for_fragment"
    /\ fragment_pos <= Len(fragments)
    /\ fragments' = fragment_body(fragments, fragment_pos,
                                  as_set(Head(bond_iter)))
    /\ fragment_pos' = fragment_pos + 1
    /\ UNCHANGED <<save, tm_format, files, rounding, previous, atoms, coords,
                   factor, hash_rank, pc, raised, calls, bond_indices,
                   bond_iter, flagged, bond_inds, bend_inds, dihedral_inds,
                   B_mat>>

\* the inner iterator is exhausted: the outer loop takes the next bond or
\* ends
ForBi ==
    /\ pc = "for_fragment"
    /\ fragment_pos > Len(fragments)
    /\ bond_iter' = Tail(bond_iter)
    /\ fragment_pos' = 1
    /\ pc' = IF Tail(bond_iter) = <<>> THEN "report" ELSE "for_fragment"
    /\ UNCHANGED <<save, tm_format, files, rounding, previous, atoms, coords,
                   factor, hash_rank, raised, calls, bond_indices, fragments,
                   flagged, bond_inds, bend_inds, dihedral_inds, B_mat>>

\* fragment_num = len(fragments), the prints and the return
Report ==
    /\ pc = "report"
    /\ flagged' = (Len(fragments) # 1)
    /\ pc' = "returned"
    /\ UNCHANGED <<save, tm_format, files, rounding, previous, atoms, coords,
                   factor, hash_rank, raised, calls, bond_indices, fragments,
                   bond_iter, fragment_pos, bond_inds, bend_inds,
                   dihedral_inds, B_mat>>

\* bend_inds = get_bending_indices(bond_inds)
GetBendingIndices ==
    /\ pc = "get_bending_indices"
    /\ \E r \in {get_bending_indices(bond_inds, hash_rank)} :
           /\ raised' = r.raised
           /\ bend_inds' = r.value
           /\ previous' = caller_keeps(previous, "bend_inds", r.value)
           /\ pc' = IF r.raised = "none" THEN "get_dihedral_indices"
                    ELSE "raised"
    /\ calls' = Append(calls, "get_bending_indices")
    /\ UNCHANGED <<save, tm_format, files, rounding, bond_iter, fragment_pos>>
    /\ UNCHANGED <<atoms, coords, factor, hash_rank, bond_indices, fragments,
                   flagged, bond_inds, dihedral_inds, B_mat>>

\* dihedral_inds = get_dihedral_indices(bond_inds, bend_inds)
GetDihedralIndices ==
    /\ pc = "get_dihedral_indices"
    /\ dihedral_inds' = get_dihedral_indices(bond_inds, bend_inds)
    /\ previous' = caller_keeps(previous, "dihedral_inds", dihedral_inds')
    /\ calls' = Append(calls, "get_dihedral_indices")
    /\ pc' = "rows"
    /\ UNCHANGED <<save, tm_format, files, rounding, bond_iter, fragment_pos>>
    /\ UNCHANGED <<atoms, coords, factor, hash_rank, raised, bond_indices,
                   fragments, flagged, bond_inds, bend_inds, B_mat>>

\* the three row comprehensions of get_B_mat, np.array(...), the dumps
\* and the return
BuildRows ==
    /\ pc = "rows"
    /\ \E X \in {B_rows(coords, bond_inds, bend_inds, dihedral_inds)} :
           /\ files' = files \cup written(save, tm_format, X)
           /\ B_mat' = returned(X, save)
           /\ coords' = geom_coords(coords, X)
           /\ previous' = caller_keeps(previous, "B_mat", X)
           /\ calls' = calls \o [k \in 1..Len(X) |-> X[k].builder]
    /\ pc' = "done"
    /\ UNCHANGED <<save, tm_format, rounding, bond_iter, fragment_pos>>
    /\ UNCHANGED <<atoms, factor, hash_rank, raised, bond_indices, fragments,
                   flagged, bond_inds, bend_inds, dihedral_inds>>

\* get_bond_B(geom, ind) called on its own
GetBondB ==
    /\ pc = "get_bond_B"
    /\ B_mat' = bond_rows(coords, bond_inds)
    /\ coords' = geom_coords(coords, B_mat')
    /\ calls' = Append(calls, "get_bond_B")
    /\ pc' = "returned"
    /\ UNCHANGED <<save, tm_format, files, rounding, bond_iter, fragment_pos>>
    /\ UNCHANGED <<previous, atoms, factor, hash_rank, raised, bond_indices,
                   fragments, flagged, bond_inds, bend_inds, dihedral_inds>>

\* get_angle_B(geom, ind) called on its own
GetAngleB ==
    /\ pc = "get_angle_B"
    /\ B_mat' = bend_rows(coords, bend_inds)
    /\ coords' = geom_coords(coords, B_mat')
    /\ calls' = Append(calls, "get_angle_B")
    /\ pc' = "returned"
    /\ UNCHANGED <<save, tm_format, files, rounding, bond_iter, fragment_pos>>
    /\ UNCHANGED <<previous, atoms, factor, hash_rank, raised, bond_indices,
                   fragments, flagged, bond_inds, bend_inds, dihedral_inds>>

\* get_dihedral_B(geom, ind) called on its own
GetDihedralB ==
    /\ pc = "get_dihedral_B"
    /\ B_mat' = dihed_rows(coords, dihedral_inds)
    /\ coords' = geom_coords(coords, B_mat')
    /\ calls' = Append(calls, "get_dihedral_B")
    /\ pc' = "returned"
    /\ UNCHANGED <<save, tm_format, files, rounding, bond_iter, fragment_pos>>
    /\ UNCHANGED <<previous, atoms, factor, hash_rank, raised, bond_indices,
                   fragments, flagged, bond_inds, bend_inds, dihedral_inds>>

\* what a call of get_B_mat has left to its caller: the exception or the
\* index lists and the matrix
outcome ==
    [raised |-> raised, bond_inds |-> bond_inds, bend_inds |-> bend_inds,
     dihedral_inds |-> dihedral_inds, B_mat |-> B_mat]

\* the caller calls get_B_mat(geom) once more, for the same geometry, in
\* the same interpreter
CallAgain ==
    /\ pc \in {"done", "raised"}
    /\ previous = <<>>
    /\ previous' = <<outcome>>
    /\ raised' = "none"
    /\ pc' = "get_bond_indices"
    /\ UNCHANGED <<save, tm_format, files, rounding, bond_iter, fragment_pos>>
    /\ UNCHANGED <<atoms, coords, factor, hash_rank, calls, bond_indices,
                   fragments, flagged, bond_inds, bend_inds, dihedral_inds,
                   B_mat>>

-----------------------------------------------------------------------------
(* The specifications *)

\* the defaults of get_B_mat(geom, save=None, tm_format=False)
DefaultArguments ==
    /\ save = None
    /\ tm_format = FALSE

\* what no call has produced yet
NoResults ==
    /\ raised = "none"
    /\ calls = <<>>
    /\ fragments = <<>>
    /\ flagged = FALSE
    /\ bond_inds = <<>>
    /\ bend_inds = <<>>
    /\ dihedral_inds = <<>>
    /\ B_mat = <<>>
    /\ previous = <<>>
    /\ files = {}
    /\ bond_iter = <<>>
    /\ fragment_pos = 0

\* get_B_mat(geom) on every geometry of up to MaxAtoms atoms at distinct
\* positions; an int hashes to itself, so the sets of atom indices are
\* iterated in ascending order (SpecBend ranges over every other order)
Init ==
    /\ \E n \in 1..MaxAtoms : \E g \in Molecules(n) :
           /\ atoms = g.at
           /\ coords = g.co
           /\ hash_rank = identity_rank(n)
    /\ factor = DefaultFactor
    /\ DefaultArguments
    /\ rounding = "exact"
    /\ pc = "get_bond_indices"
    /\ bond_indices = <<>>
    /\ NoResults

Next ==
    \/ GetBondIndices
    \/ GetBendingIndices
    \/ GetDihedralIndices
    \/ BuildRows

Spec == Init /\ [][Next]_vars

\* get_bond_indices(geom, factor) on every geometry of up to MaxAtomsBond
\* atoms and every factor tried
InitBond ==
    /\ \E n \in 1..MaxAtomsBond : \E g \in Geometries(n) :
           /\ atoms = g.at
           /\ coords = g.co
           /\ hash_rank = identity_rank(n)
    /\ factor \in Factors
    /\ DefaultArguments
    /\ rounding = "exact"
    /\ pc = "get_bond_indices"
    /\ bond_indices = <<>>
    /\ NoResults

NextBond == GetBondIndices

SpecBond == InitBond /\ [][NextBond]_vars

\* make_fragments on every bond array of up to MaxAtomsFrag atoms
InitFrag ==
    /\ atoms = <<>>
    /\ coords = <<>>
    /\ factor = DefaultFactor
    /\ DefaultArguments
    /\ rounding = "exact"
    /\ hash_rank = identity_rank(MaxAtomsFrag)
    /\ pc = "make_fragments"
    /\ bond_indices \in BondArrays(MaxAtomsFrag)
    /\ NoResults

NextFrag == MakeFragments

SpecFrag == InitFrag /\ [][NextFrag]_vars

\* get_bending_indices on every bond array of up to MaxAtomsBend atoms and
\* MaxBondsBend bonds, under every iteration rank of the atom indices
InitBend ==
    /\ atoms = <<>>
    /\ coords = <<>>
    /\ factor = DefaultFactor
    /\ DefaultArguments
    /\ rounding = "exact"
    /\ hash_rank \in Ranks(MaxAtomsBend)
    /\ pc = "get_bending_indices"
    /\ bond_indices = <<>>
    /\ raised = "none"
    /\ calls = <<>>
    /\ fragments = <<>>
    /\ flagged = FALSE
    /\ bond_inds \in {b \in BondArrays(MaxAtomsBend) : Len(b) <= MaxBondsBend}
    /\ bend_inds = <<>>
    /\ dihedral_inds = <<>>
    /\ B_mat = <<>>
    /\ previous = <<>>
    /\ files = {}
    /\ bond_iter = <<>>
    /\ fragment_pos = 0

NextBend == GetBendingIndices

SpecBend == InitBend /\ [][NextBend]_vars

\* get_bending_indices and then get_dihedral_indices on every bond array of
\* up to MaxAtomsDihed atoms and MaxBondsDihed bonds, the sets iterated in
\* ascending or in descending order
InitDihed ==
    /\ atoms = <<>>
    /\ coords = <<>>
    /\ factor = DefaultFactor
    /\ DefaultArguments
    /\ rounding = "exact"
    /\ hash_rank \in {identity_rank(MaxAtomsDihed), reverse_rank(MaxAtomsDihed)}
    /\ pc = "get_bending_indices"
    /\ bond_indices = <<>>
    /\ raised = "none"
    /\ calls = <<>>
    /\ fragments = <<>>
    /\ flagged = FALSE
    /\ bond_inds \in {b \in BondArrays(MaxAtomsDihed) : Len(b) <= MaxBondsDihed}
    /\ bend_inds = <<>>
    /\ dihedral_inds = <<>>
    /\ B_mat = <<>>
    /\ previous = <<>>
    /\ files = {}
    /\ bond_iter = <<>>
    /\ fragment_pos = 0

NextDihed ==
    \/ GetBendingIndices
    \/ GetDihedralIndices

SpecDihed == InitDihed /\ [][NextDihed]_vars

\* get_B_mat(geom) on water and on hydrogen peroxide, the atoms listed in
\* every order and the sets iterated under every rank of the atom indices
InitMol ==
    /\ \E g \in {h2o, h2o2} : \E perm \in Ranks(Len(g.at)) :
           /\ atoms = renumbered(g, perm).at
           /\ coords = renumbered(g, perm).co
           /\ hash_rank \in Ranks(Len(g.at))
    /\ factor = DefaultFactor
    /\ DefaultArguments
    /\ rounding = "exact"
    /\ pc = "get_bond_indices"
    /\ bond_indices = <<>>
    /\ NoResults

NextMol ==
    \/ GetBondIndices
    \/ GetBendingIndices
    \/ GetDihedralIndices
    \/ BuildRows

SpecMol == InitMol /\ [][NextMol]_vars

\* one call of a row builder on every geometry of MaxAtomsRow atoms at the
\* positions RowPoints, for a bond, an angle or a dihedral of its atoms; the
\* dihedral under every rounding of the dot products
InitRow ==
    /\ \E g \in RowGeometries(MaxAtomsRow) :
           /\ atoms = g.at
           /\ coords = g.co
    /\ factor = DefaultFactor
    /\ DefaultArguments
    /\ hash_rank = identity_rank(MaxAtomsRow)
    /\ bond_indices = <<>>
    /\ raised = "none"
    /\ calls = <<>>
    /\ fragments = <<>>
    /\ flagged = FALSE
    /\ B_mat = <<>>
    /\ previous = <<>>
    /\ files = {}
    /\ bond_iter = <<>>
    /\ fragment_pos = 0
    /\ \/ /\ pc = "get_bond_B"
          /\ \E ind \in IndexTuples(2, MaxAtomsRow) : bond_inds = <<ind>>
          /\ bend_inds = <<>>
          /\ dihedral_inds = <<>>
          /\ rounding = "exact"
       \/ /\ pc = "get_angle_B"
          /\ bond_inds = <<>>
          /\ \E ind \in IndexTuples(3, MaxAtomsRow) : bend_inds = <<ind>>
          /\ dihedral_inds = <<>>
          /\ rounding = "exact"
       \/ /\ pc = "get_dihedral_B"
          /\ bond_inds = <<>>
          /\ bend_inds = <<>>
          /\ \E ind \in IndexTuples(4, MaxAtomsRow) : dihedral_inds = <<ind>>
          /\ rounding \in Roundings

NextRow ==
    \/ GetBondB
    \/ GetAngleB
    \/ GetDihedralB

SpecRow == InitRow /\ [][NextRow]_vars

\* get_B_mat(geom) called twice on every geometry of up to MaxAtoms atoms
\* at distinct positions; the hash of an int is its value in both calls, so
\* the iteration rank is that of the first call
InitTwice ==
    /\ \E n \in 1..MaxAtoms : \E g \in Molecules(n) :
           /\ atoms = g.at
           /\ coords = g.co
           /\ hash_rank \in {identity_rank(n), reverse_rank(n)}
    /\ factor = DefaultFactor
    /\ DefaultArguments
    /\ rounding = "exact"
    /\ pc = "get_bond_indices"
    /\ bond_indices = <<>>
    /\ NoResults

NextTwice ==
    \/ GetBondIndices
    \/ GetBendingIndices
    \/ GetDihedralIndices
    \/ BuildRows
    \/ CallAgain

SpecTwice == InitTwice /\ [][NextTwice]_vars

\* make_fragments, statement by statement, on every bond array of up to
\* MaxAtomsLoop atoms and MaxBondsLoop bonds
InitLoop ==
    /\ atoms = <<>>
    /\ coords = <<>>
    /\ factor = DefaultFactor
    /\ DefaultArguments
    /\ rounding = "exact"
    /\ hash_rank = identity_rank(MaxAtomsLoop)
    /\ pc = "make_fragments"
    /\ bond_indices \in {b \in BondArrays(MaxAtomsLoop) : Len(b) <= MaxBondsLoop}
    /\ NoResults

NextLoop ==
    \/ PopFirst
    \/ ForFragment
    \/ ForBi
    \/ Report

SpecLoop == InitLoop /\ [][NextLoop]_vars

\* the interpreter goes on to the next statement as long as there is one
SpecLoopFair == SpecLoop /\ WF_vars(NextLoop)

\* the values of the argument save that are tried: the default, an empty
\* name and a file name
SaveArgs == {None, "", "h2o2.bmat"}

\* get_B_mat(geom, save, tm_format) on every geometry of up to MaxAtomsSave
\* atoms at distinct positions, oxygens and atoms of no element, for every
\* combination of the two arguments
InitSave ==
    /\ \E n \in 1..MaxAtomsSave :
           \E g \in {m \in Molecules(n) : \A k \in 1..n : m.at[k] # "H"} :
               /\ atoms = g.at
               /\ coords = g.co
               /\ hash_rank = identity_rank(n)
    /\ factor = DefaultFactor
    /\ save \in SaveArgs
    /\ tm_format \in BOOLEAN
    /\ rounding = "exact"
    /\ pc = "get_bond_indices"
    /\ bond_indices = <<>>
    /\ NoResults

NextSave ==
    \/ GetBondIndices
    \/ GetBendingIndices
    \/ GetDihedralIndices
    \/ BuildRows

SpecSave == InitSave /\ [][NextSave]_vars

-----------------------------------------------------------------------------
(* Vocabulary of the properties *)

\* the atom indices of the geometry
AtomIndices == 0..(Len(atoms) - 1)

\* every atom of the geometry has a covalent radius
AllKnown == \A k \in 1..Len(atoms) : atoms[k] \in {"H", "h", "O", "o"}

\* the covalent radius of a known element, by its label
RadiusOfLabel(label) == IF label \in {"H", "h"} THEN 5 ELSE 10

\* atoms i and j are within factor times the sum of their radii
WithinThreshold(i, j) ==
    LET d2 == Dist2(coords[i + 1], coords[j + 1])
        sum == factor * (RadiusOfLabel(atoms[i + 1]) + RadiusOfLabel(atoms[j + 1]))
    IN  100 * d2 <= sum * sum

\* the ascending pairs of atoms that are within the threshold
BondedPairs ==
    {<<i, j>> \in AtomIndices \X AtomIndices : i < j /\ WithinThreshold(i, j)}

\* the atoms that occur in a bond list
BondedAtoms(bonds) == UNION {as_set(bonds[k]) : k \in 1..Len(bonds)}

\* the atoms bonded to an atom of S, and S
RECURSIVE Reachable(_, _)
Reachable(S, bonds) ==
    LET more == S \cup UNION {as_set(bonds[k]) :
                                 k \in {m \in 1..Len(bonds) :
                                            as_set(bonds[m]) \cap S # {}}}
    IN  IF more = S THEN S ELSE Reachable(more, bonds)

\* the connected components of the bond graph
Components(bonds) == {Reachable({a}, bonds) : a \in BondedAtoms(bonds)}

\* number of bonds that contain atom a
Degree(a, bonds) == Cardinality({k \in 1..Len(bonds) : a \in as_set(bonds[k])})

-----------------------------------------------------------------------------
(* C1 *)

\* C1: for every geometry of known elements and every factor,
\* get_bond_indices returns exactly the pairs (i, j), i < j, whose distance
\* is at most factor * (radius_i + radius_j): ascending tuples, none twice.
C1_ReturnsExactlyBondedPairs ==
    (pc # "get_bond_indices" /\ AllKnown) =>
        /\ raised = "none"
        /\ as_set(bond_inds) = BondedPairs
        /\ Len(bond_inds) = Cardinality(BondedPairs)
        /\ \A k \in 1..Len(bond_inds) : bond_inds[k][1] < bond_inds[k][2]

-----------------------------------------------------------------------------
(* C2 *)

\* C2: the fragments make_fragments reports are the connected components of
\* the bond graph; a connected bond graph gives exactly one fragment.
C2_FragmentsAreComponents ==
    pc = "returned" =>
        /\ as_set(fragments) = Components(bond_indices)
        /\ Len(fragments) = Cardinality(Components(bond_indices))

-----------------------------------------------------------------------------
(* C3 *)

\* C3: after make_fragments the fragments are pairwise disjoint: no atom is
\* a member of two entries of the fragment list.
C3_FragmentsDisjoint ==
    pc = "returned" =>
        \A a, b \in 1..Len(fragments) :
            a # b => fragments[a] \cap fragments[b] = {}

-----------------------------------------------------------------------------
(* C4 *)

-----------------------------------------------------------------------------
(* C5 *)

\* an atom without a partner within the threshold
Isolated(a) == \A b \in AtomIndices \ {a} : ~WithinThreshold(a, b)

\* C5: get_bond_indices and get_B_mat complete normally on every geometry
\* of known elements, also on one without any bond, and an atom without a
\* bonding partner is in no bond, angle, dihedral or fragment.
C5_IsolatedAtomsHarmless ==
    AllKnown =>
        /\ raised = "none"
        /\ pc # "raised"
        /\ \A a \in AtomIndices :
               Isolated(a) =>
                   /\ \A k \in 1..Len(bond_inds) : a \notin as_set(bond_inds[k])
                   /\ \A k \in 1..Len(bend_inds) : a \notin as_set(bend_inds[k])
                   /\ \A k \in 1..Len(dihedral_inds) :
                          a \notin as_set(dihedral_inds[k])
                   /\ \A k \in 1..Len(fragments) : a \notin fragments[k]

-----------------------------------------------------------------------------
(* C6 *)

\* some atom of the geometry has no covalent radius
HasUnknown == \E k \in 1..Len(atoms) : atoms[k] \notin {"H", "h", "O", "o"}

\* get_bond_indices failed on the missing radius and nothing else has run
AbortedOnLookup ==
    /\ raised = "KeyError"
    /\ pc = "raised"
    /\ calls = <<"get_bond_indices">>
    /\ fragments = <<>>
    /\ bond_inds = <<>>
    /\ bend_inds = <<>>
    /\ dihedral_inds = <<>>
    /\ B_mat = <<>>

\* C6 as stated: on every geometry with an atom of unknown element,
\* get_bond_indices fails with the unknown-element error and get_B_mat
\* stops there, before make_fragments, the angle and dihedral generators
\* and the row builders.
C6_UnknownElementAborts ==
    (pc # "get_bond_indices" /\ HasUnknown) => AbortedOnLookup

\* C6 amended: the same on every geometry of at least two atoms; a radius
\* is looked up per atom pair, and one atom alone forms no pair.
C6_UnknownElementAbortsPairs ==
    (pc # "get_bond_indices" /\ HasUnknown /\ Len(atoms) >= 2)
        => AbortedOnLookup

\* the lookup failed on a geometry whose last atom alone is unknown
C6_Witness ==
    /\ Len(atoms) >= 3
    /\ \A k \in 1..Len(atoms) :
           (atoms[k] \notin {"H", "h", "O", "o"}) <=> (k = Len(atoms))
    /\ AbortedOnLookup

-----------------------------------------------------------------------------
(* C7 *)

\* the bonded pairs in the order get_bond_indices lists them
BondedPairList == select(atom_indices(Len(atoms)), BondedPairs)

\* the rows of B_mat made by one builder
RowsBy(builder) == {k \in 1..Len(B_mat) : B_mat[k].builder = builder}

\* C7: when make_fragments has found more than one fragment it has only
\* printed its notice: nothing is raised, the caller's bond array is
\* unchanged, get_bond_indices returns the full bond list, and get_B_mat
\* goes on through angle, dihedral and row generation to its return.
C7_FragmentationNotFatal ==
    flagged =>
        /\ raised = "none"
        /\ bond_indices = BondedPairList
        /\ bond_inds = BondedPairList
        /\ pc \in {"get_bending_indices", "get_dihedral_indices", "rows", "done"}
        /\ pc = "done" =>
               /\ Cardinality(RowsBy("get_bond_B")) = Len(bond_inds)
               /\ Cardinality(RowsBy("get_angle_B")) = Len(bend_inds)
               /\ Cardinality(RowsBy("get_dihedral_B")) = Len(dihedral_inds)

\* get_B_mat has returned a matrix with angle rows for a geometry that
\* make_fragments flagged
C7_Witness ==
    /\ flagged
    /\ Len(fragments) > 1
    /\ pc = "done"
    /\ RowsBy("get_angle_B") # {}

-----------------------------------------------------------------------------
(* C8 *)

\* the geometry with its atoms listed in the order perm: the atom at
\* position k is the atom that was at position perm[k]
PermutedAtoms(perm) == [k \in 1..Len(atoms) |-> atoms[perm[k]]]
PermutedCoords(perm) == [k \in 1..Len(coords) |-> coords[perm[k]]]

\* the bonds of a result on the permuted geometry, as sets of the original
\* atom indices
OriginalBonds(value, perm) ==
    {{perm[value[k][1] + 1] - 1, perm[value[k][2] + 1] - 1} :
         k \in 1..Len(value)}

\* C8: get_bond_indices gives the same outcome and the same set of bonded
\* atoms for every order in which the atoms are listed, and the bond test
\* is symmetric in the two atoms of a pair.
C8_BondsOrderIndependent ==
    pc # "get_bond_indices" =>
        /\ \A perm \in Ranks(Len(atoms)) :
               \E r \in {get_bond_indices(PermutedAtoms(perm),
                                          PermutedCoords(perm), factor)} :
                   /\ r.raised = raised
                   /\ OriginalBonds(r.value, perm)
                          = {as_set(bond_inds[k]) : k \in 1..Len(bond_inds)}
        /\ \A i, j \in AtomIndices :
               i # j => (bond_flag(atoms, coords, factor, i, j)
                             <=> bond_flag(atoms, coords, factor, j, i))

\* get_bond_indices has returned bonds for three atoms of two elements, one
\* pair of which is not bonded
C8_Witness ==
    /\ pc = "get_bending_indices"
    /\ Len(atoms) = 3
    /\ atoms[1] # atoms[2]
    /\ Len(bond_inds) \in {1, 2}

-----------------------------------------------------------------------------
(* C9 *)

\* the bonds of the input of get_bending_indices, as sets
BondSets == {as_set(bond_inds[k]) : k \in 1..Len(bond_inds)}

\* the unordered pairs of distinct bonds that share exactly one atom
AnglePairs ==
    {pair \in {{b1, b2} : b1, b2 \in BondSets} :
         /\ Cardinality(pair) = 2
         /\ Cardinality(UNION pair) = 3}

\* the atom that the two bonds of a pair share
SharedAtom(pair) == CHOOSE c \in UNION pair : \A b \in pair : c \in b

\* the angle of every such pair: the shared atom and the two other atoms
ExpectedAngles ==
    {<<SharedAtom(pair), (UNION pair) \ {SharedAtom(pair)}>> : pair \in AnglePairs}

\* the angles returned: the middle atom and the two outer atoms
ReturnedAngles ==
    {<<bend_inds[k][2], {bend_inds[k][1], bend_inds[k][3]}>> :
         k \in 1..Len(bend_inds)}

\* the sum of C(n, 2) over the degrees n of the atoms in S
RECURSIVE SumOfChoose2(_, _)
SumOfChoose2(S, bonds) ==
    IF S = {} THEN 0
    ELSE LET a == CHOOSE x \in S : TRUE
         IN  (Degree(a, bonds) * (Degree(a, bonds) - 1)) \div 2
                 + SumOfChoose2(S \ {a}, bonds)

\* C9: get_bending_indices returns exactly one angle for every unordered
\* pair of distinct bonds that share exactly one atom and no other angle,
\* so the number of angles is the sum over the atoms of C(degree, 2).
C9_OneAnglePerBondPair ==
    pc # "get_bending_indices" =>
        /\ raised = "none"
        /\ ReturnedAngles = ExpectedAngles
        /\ Len(bend_inds) = Cardinality(AnglePairs)
        /\ Len(bend_inds) = SumOfChoose2(BondedAtoms(bond_inds), bond_inds)

\* get_bending_indices has returned the three angles of a triangle and one
\* more, under an iteration order other than the ascending one
C9_Witness ==
    /\ pc = "get_dihedral_indices"
    /\ hash_rank # identity_rank(Len(hash_rank))
    /\ Len(bend_inds) >= 4
    /\ \E a, b, c \in BondedAtoms(bond_inds) :
           {{a, b}, {b, c}, {a, c}} \subseteq BondSets /\ a # b /\ b # c /\ a # c

-----------------------------------------------------------------------------
(* C10 *)

\* C10: every triple get_bending_indices returns has three distinct atoms
\* and its middle atom is bonded to both outer atoms, so the middle atom is
\* the one the two defining bonds share.
C10_CentralInTheMiddle ==
    pc # "get_bending_indices" =>
        \A k \in 1..Len(bend_inds) :
            /\ Len(bend_inds[k]) = 3
            /\ Cardinality(as_set(bend_inds[k])) = 3
            /\ {bend_inds[k][1], bend_inds[k][2]} \in BondSets
            /\ {bend_inds[k][2], bend_inds[k][3]} \in BondSets

\* get_bending_indices has returned an angle whose outer atoms are not
\* bonded to each other and are listed in descending order
C10_Witness ==
    /\ pc = "get_dihedral_indices"
    /\ \E k \in 1..Len(bend_inds) :
           /\ {bend_inds[k][1], bend_inds[k][3]} \notin BondSets
           /\ bend_inds[k][1] > bend_inds[k][3]

-----------------------------------------------------------------------------
(* C11 *)

\* get_dihedral_indices has returned
DihedralsReturned == pc \in {"rows", "done"}

\* the (bond, angle) pairs in the order of the enumeration, bond-major and
\* angle-minor, numbered from 1
PairCount == Len(bond_inds) * Len(bend_inds)
PairBond(k) == bond_inds[((k - 1) \div Len(bend_inds)) + 1]
PairBend(k) == bend_inds[((k - 1) % Len(bend_inds)) + 1]

\* the pairs that form a candidate, and the candidate of such a pair
CandidatePairs == {k \in 1..PairCount : forms_dihedral(PairBond(k), PairBend(k))}
Candidate(k) == dihedral_ind(PairBond(k), PairBend(k))

\* the candidates that no earlier candidate has the atom set of
FirstOfTheirSet ==
    {k \in CandidatePairs :
        \A j \in CandidatePairs :
            j < k => as_set(Candidate(j)) # as_set(Candidate(k))}

\* C11: no two dihedrals returned by get_dihedral_indices have the same set
\* of four atoms; of the candidates with one atom set the first of the
\* bond-major, angle-minor enumeration is returned and the later ones are
\* dropped, so the returned list is the list of these first candidates in
\* the order of the enumeration.
C11_DihedralSetsUnique ==
    DihedralsReturned =>
        /\ \A d, e \in 1..Len(dihedral_inds) :
               d # e => as_set(dihedral_inds[d]) # as_set(dihedral_inds[e])
        /\ Len(dihedral_inds) = Cardinality(FirstOfTheirSet)
        /\ \A d \in 1..Len(dihedral_inds) :
               \E k \in FirstOfTheirSet :
                   /\ dihedral_inds[d] = Candidate(k)
                   /\ Cardinality({j \in FirstOfTheirSet : j < k}) = d - 1

\* get_dihedral_indices has returned two dihedrals and has dropped a
\* candidate that lists the atoms of a returned one in another order
C11_Witness ==
    /\ DihedralsReturned
    /\ Len(dihedral_inds) >= 2
    /\ \E k \in CandidatePairs \ FirstOfTheirSet :
           \A d \in 1..Len(dihedral_inds) : dihedral_inds[d] # Candidate(k)

-----------------------------------------------------------------------------
(* C12 *)

\* the triple (x, y, z) is an angle of bend_inds in one of its orientations
IsAngle(x, y, z) ==
    \E k \in 1..Len(bend_inds) :
        bend_inds[k] = <<x, y, z>> \/ bend_inds[k] = <<z, y, x>>

\* C12: every dihedral (m, o, p, n) returned for the bonds and the angles of
\* get_bending_indices has four distinct atoms that form a bonded chain:
\* {m,o}, {o,p} and {p,n} are bonds, and (m,o,p) and (o,p,n) are angles.
C12_DihedralIsBondedChain ==
    DihedralsReturned =>
        \A d \in 1..Len(dihedral_inds) :
            LET m == dihedral_inds[d][1]
                o == dihedral_inds[d][2]
                p == dihedral_inds[d][3]
                n == dihedral_inds[d][4]
            IN  /\ Len(dihedral_inds[d]) = 4
                /\ Cardinality({m, o, p, n}) = 4
                /\ {{m, o}, {o, p}, {p, n}} \subseteq BondSets
                /\ IsAngle(m, o, p)
                /\ IsAngle(o, p, n)

\* get_dihedral_indices has returned a dihedral whose terminal atom was
\* appended to its angle, and the outer atoms of which are not bonded
C12_Witness ==
    /\ DihedralsReturned
    /\ \E d \in 1..Len(dihedral_inds) :
           /\ \E k \in 1..Len(bend_inds) :
                  bend_inds[k] = SubSeq(dihedral_inds[d], 1, 3)
           /\ {dihedral_inds[d][1], dihedral_inds[d][4]} \notin BondSets

-----------------------------------------------------------------------------
(* C13 *)

\* the detected coordinates: bonds, then angles, then dihedrals
Coordinates == bond_inds \o bend_inds \o dihedral_inds

\* the builder of the k-th coordinate and what it returns for it
BuilderOf(k) ==
    IF k <= Len(bond_inds) THEN "get_bond_B"
    ELSE IF k <= Len(bond_inds) + Len(bend_inds) THEN "get_angle_B"
    ELSE "get_dihedral_B"

BuiltRow(k) ==
    IF k <= Len(bond_inds) THEN get_bond_B(coords, Coordinates[k])
    ELSE IF k <= Len(bond_inds) + Len(bend_inds)
    THEN get_angle_B(coords, Coordinates[k])
    ELSE get_dihedral_B(coords, Coordinates[k])

\* C13: the matrix get_B_mat returns has one row per detected coordinate and
\* 3N columns: the bond rows in the order of get_bond_indices, then the
\* angle rows in the order of get_bending_indices, then the dihedral rows in
\* the order of get_dihedral_indices; row k is what the builder of the k-th
\* coordinate returns for it.
C13_RowsFollowCoordinates ==
    pc = "done" =>
        /\ Len(B_mat) = Len(bond_inds) + Len(bend_inds) + Len(dihedral_inds)
        /\ \A k \in 1..Len(B_mat) :
               /\ B_mat[k].ind = Coordinates[k]
               /\ B_mat[k].builder = BuilderOf(k)
               /\ B_mat[k].row = BuiltRow(k)
               /\ flatten_len(B_mat[k].row) = 3 * Len(atoms)

\* get_B_mat has returned a matrix with bond, angle and dihedral rows
C13_Witness ==
    /\ pc = "done"
    /\ Len(bond_inds) >= 3
    /\ Len(bend_inds) >= 2
    /\ Len(dihedral_inds) >= 1
    /\ Len(B_mat) >= 6

-----------------------------------------------------------------------------
(* C14 *)

\* the number of atoms within the threshold of atom a
Partners(a) == Cardinality({b \in AtomIndices \ {a} : WithinThreshold(a, b)})

\* the atom is a hydrogen, an oxygen
IsH(a) == atoms[a + 1] \in {"H", "h"}
IsO(a) == atoms[a + 1] \in {"O", "o"}

\* the geometry is a chain H-O-O-H: four atoms whose bond graph is a path
\* with the two hydrogens at its ends
IsChainHOOH ==
    /\ Len(atoms) = 4
    /\ Cardinality(BondedPairs) = 3
    /\ \A a \in AtomIndices :
           \/ IsH(a) /\ Partners(a) = 1
           \/ IsO(a) /\ Partners(a) = 2
    /\ \E a, b \in AtomIndices : a # b /\ IsO(a) /\ IsO(b) /\ WithinThreshold(a, b)

\* the shape of the returned matrix: the rows, and the entries of each row
Shape(rows, columns) ==
    /\ Len(B_mat) = rows
    /\ \A k \in 1..Len(B_mat) : flatten_len(B_mat[k].row) = columns

\* C14: on a chain H-O-O-H, under any numbering of its atoms, the pipeline
\* raises nothing and yields exactly 3 bonds, 2 angles and 1 dihedral, and
\* get_B_mat returns a matrix of shape (6, 12).
C14_PeroxideCounts ==
    IsChainHOOH =>
        /\ raised = "none"
        /\ pc # "get_bond_indices" => Len(bond_inds) = 3
        /\ pc \in {"get_dihedral_indices", "rows", "done"} => Len(bend_inds) = 2
        /\ pc \in {"rows", "done"} => Len(dihedral_inds) = 1
        /\ pc = "done" => Shape(6, 12)

\* get_B_mat has returned for a chain whose first atom is an oxygen and
\* whose angles were listed in descending order of their central atoms
C14_Witness ==
    /\ IsChainHOOH
    /\ pc = "done"
    /\ IsO(0)
    /\ Len(bend_inds) = 2
    /\ bend_inds[1][2] > bend_inds[2][2]
    /\ Len(B_mat) = 6

-----------------------------------------------------------------------------
(* C15 *)

\* the geometry is water: an oxygen within the threshold of two hydrogens
\* that are not within the threshold of each other
IsWater ==
    /\ Len(atoms) = 3
    /\ Cardinality(BondedPairs) = 2
    /\ \E o \in AtomIndices :
           /\ IsO(o)
           /\ \A a \in AtomIndices \ {o} : IsH(a) /\ WithinThreshold(a, o)

\* C15: on water the pipeline raises nothing and yields exactly 2 bonds,
\* exactly 1 angle with the oxygen in the middle and no dihedral, and
\* get_B_mat returns a matrix of shape (3, 9) although the dihedral list is
\* empty.
C15_WaterCounts ==
    IsWater =>
        /\ raised = "none"
        /\ pc # "get_bond_indices" => Len(bond_inds) = 2
        /\ pc \in {"get_dihedral_indices", "rows", "done"} =>
               /\ Len(bend_inds) = 1
               /\ IsO(bend_inds[1][2])
               /\ IsH(bend_inds[1][1])
               /\ IsH(bend_inds[1][3])
        /\ pc \in {"rows", "done"} => dihedral_inds = <<>>
        /\ pc = "done" => Shape(3, 9)

\* get_B_mat has returned for water with the oxygen listed last
C15_Witness ==
    /\ IsWater
    /\ pc = "done"
    /\ IsO(2)
    /\ Len(B_mat) = 3
    /\ B_mat[3].builder = "get_angle_B"

-----------------------------------------------------------------------------
(* Vocabulary of the rows *)

\* a row builder called on its own has returned B_mat[1]
RowReturned(builder) ==
    /\ pc = "returned"
    /\ Len(B_mat) = 1
    /\ B_mat[1].builder = builder

\* the block of atom a in a row
Block(row, a) == row.blocks[a + 1]

\* no entry of the block is NaN or Inf
FiniteBlock(row, a) ==
    Block(row, a) = <<>>
        \/ (row.root # 0 /\ \A i \in 1..Len(Block(row, a)) : Block(row, a)[i].den # 0)

\* the block is (0, 0, 0)
ZeroBlock(row, a) ==
    /\ FiniteBlock(row, a)
    /\ \A i \in 1..Len(Block(row, a)) : Block(row, a)[i].num = <<0, 0, 0>>

\* the positions of the terms of a row: atom and place in the block
TermsOf(row) ==
    {<<a, i>> \in (0..(Len(row.blocks) - 1)) \X (1..4) : i <= Len(Block(row, a))}

\* how often the vector num / den is added in the blocks of the atoms S,
\* less how often it is subtracted
Net(row, S, num, den) ==
    Cardinality({t \in TermsOf(row) :
                    /\ t[1] \in S
                    /\ Block(row, t[1])[t[2]] = Term(1, num, den)})
        - Cardinality({t \in TermsOf(row) :
                          /\ t[1] \in S
                          /\ Block(row, t[1])[t[2]] = Term(-1, num, den)})

\* the blocks of the atoms S are finite and sum to the zero vector
SumToZero(row, S) ==
    /\ \A a \in S : FiniteBlock(row, a)
    /\ \A t \in TermsOf(row) :
           t[1] \in S =>
               Net(row, S, Block(row, t[1])[t[2]].num,
                   Block(row, t[1])[t[2]].den) = 0

-----------------------------------------------------------------------------
(* C16 *)

\* C16: the row a row builder returns has 3N entries, and the block of
\* every atom that is not one of the 2, 3 or 4 atoms of the coordinate is
\* exactly zero.
C16_ZeroOutsideOwnAtoms ==
    pc = "returned" =>
        \A k \in 1..Len(B_mat) :
            /\ flatten_len(B_mat[k].row) = 3 * Len(coords)
            /\ \A a \in AtomIndices \ as_set(B_mat[k].ind) :
                   Block(B_mat[k].row, a) = <<>>

\* get_dihedral_B has returned a row for the last four atoms, at positions
\* that are not collinear, with a non-zero block for each of them
C16_Witness ==
    /\ RowReturned("get_dihedral_B")
    /\ 0 \notin as_set(B_mat[1].ind)
    /\ \A a \in as_set(B_mat[1].ind) :
           FiniteBlock(B_mat[1].row, a) /\ ~ZeroBlock(B_mat[1].row, a)

-----------------------------------------------------------------------------
(* C17 *)

\* the block is the unit vector along p, in the direction of p
UnitAlong(row, a, p) ==
    /\ FiniteBlock(row, a)
    /\ Len(Block(row, a)) = 1
    /\ LET t == Block(row, a)[1]
           vec == Scale(t.sign, t.num)
       IN  /\ Dot(vec, vec) = t.den * t.den * row.root
           /\ Cross(vec, p) = <<0, 0, 0>>
           /\ Dot(vec, p) > 0

\* get_bond_B has returned the row of a bond (n, m) that get_bond_indices
\* detects: n < m and the two atoms are within the threshold
DetectedBondRow ==
    /\ RowReturned("get_bond_B")
    /\ B_mat[1].ind[1] < B_mat[1].ind[2]
    /\ WithinThreshold(B_mat[1].ind[1], B_mat[1].ind[2])

\* the row of the bond (n, m) has two non-zero blocks, the unit vector from
\* n to m for atom m and its negation for atom n
BondRowIsUnitPair ==
    LET row == B_mat[1].row
        n == B_mat[1].ind[1]
        m == B_mat[1].ind[2]
        bond == Sub(coords[m + 1], coords[n + 1])
    IN  /\ UnitAlong(row, m, bond)
        /\ UnitAlong(row, n, Scale(-1, bond))
        /\ ~ZeroBlock(row, m)
        /\ ~ZeroBlock(row, n)
        /\ SumToZero(row, {n, m})
        /\ \A a \in AtomIndices \ {n, m} : ZeroBlock(row, a)

\* C17 as stated: for all geometries, the row get_bond_B builds for a
\* detected bond (n, m) has exactly two non-zero blocks: the unit vector
\* from n to m in the block of m and its negation in the block of n.
C17_BondRowUnitVectors == DetectedBondRow => BondRowIsUnitPair

\* C17 amended: the same for every detected bond whose two atoms are at
\* different positions.
C17_BondRowUnitVectorsDistinct ==
    (DetectedBondRow /\ coords[B_mat[1].ind[1] + 1] # coords[B_mat[1].ind[2] + 1])
        => BondRowIsUnitPair

\* get_bond_B has returned the row of a detected bond that lies along
\* neither axis, with a third atom at the position of one of its atoms
C17_Witness ==
    /\ DetectedBondRow
    /\ LET n == B_mat[1].ind[1]
           m == B_mat[1].ind[2]
       IN  /\ Sub(coords[m + 1], coords[n + 1]) = <<-2, 1, -1>>
           /\ \E a \in AtomIndices \ {n, m} : coords[a + 1] = coords[m + 1]
    /\ BondRowIsUnitPair

-----------------------------------------------------------------------------
(* C18 *)

\* C18: in every row get_angle_B builds for (m, o, n) the three blocks sum
\* to the zero vector, block(o) = -(block(m) + block(n)), in the ordinary
\* and in the near-linear branch.
C18_AngleBlocksSumToZero ==
    RowReturned("get_angle_B") =>
        SumToZero(B_mat[1].row, as_set(B_mat[1].ind))

-----------------------------------------------------------------------------
(* C19 *)

\* the terms of get_dihedral_B for (m, o, p, n), from the positions
DihedralTerms ==
    LET ind == B_mat[1].ind
        U == Sub(coords[ind[1] + 1], coords[ind[2] + 1])
        V == Sub(coords[ind[4] + 1], coords[ind[3] + 1])
        W == Sub(coords[ind[3] + 1], coords[ind[2] + 1])
        uxw == Cross(U, W)
        vxw == Cross(V, W)
    IN  [t1 |-> Term(1, Scale(Dot(W, W), uxw), Dot(uxw, uxw)),
         t2 |-> Term(1, Scale(Dot(W, W), vxw), Dot(vxw, vxw)),
         t3u |-> Term(1, Scale(Dot(U, W), uxw), Dot(uxw, uxw)),
         t3v |-> Term(1, Scale(Dot(W, V), vxw), Dot(vxw, vxw)),
         collinear |-> uxw = <<0, 0, 0>> \/ vxw = <<0, 0, 0>>]

\* the term t subtracted
Minus(t) == [t EXCEPT !.sign = -1]

\* the four blocks are t1, -t2, -t1 + t3 and t2 - t3 with t3 = t3u - t3v,
\* all finite, and sum to the zero vector
DihedralRowIsBalanced ==
    LET row == B_mat[1].row
        ind == B_mat[1].ind
        T == DihedralTerms
    IN  /\ SumToZero(row, as_set(ind))
        /\ Block(row, ind[1]) = <<T.t1>>
        /\ Block(row, ind[4]) = <<Minus(T.t2)>>
        /\ Block(row, ind[2]) = <<Minus(T.t1), T.t3u, Minus(T.t3v)>>
        /\ Block(row, ind[3]) = <<T.t2, Minus(T.t3u), T.t3v>>

\* C19 as stated: in every row get_dihedral_B builds for (m, o, p, n) the
\* four blocks sum to the zero vector: block(m) = t1, block(n) = -t2,
\* block(o) = -t1 + t3, block(p) = t2 - t3.
C19_DihedralBlocksSumToZero ==
    RowReturned("get_dihedral_B") => DihedralRowIsBalanced

\* C19 amended: the same for every (m, o, p, n) in which neither m, o, p
\* nor o, p, n lie on one line (two atoms at one position lie on a line
\* with any third).
C19_DihedralBlocksSumToZeroBent ==
    (RowReturned("get_dihedral_B") /\ ~DihedralTerms.collinear)
        => DihedralRowIsBalanced

\* get_dihedral_B has returned a row of four atoms at four positions, none
\* of its angles linear and none of its terms zero
C19_Witness ==
    /\ RowReturned("get_dihedral_B")
    /\ ~DihedralTerms.collinear
    /\ Cardinality({coords[a + 1] : a \in as_set(B_mat[1].ind)}) = 4
    /\ DihedralTerms.t3u.num # <<0, 0, 0>>
    /\ DihedralTerms.t3v.num # <<0, 0, 0>>
    /\ DihedralRowIsBalanced

-----------------------------------------------------------------------------
(* C20 *)

-----------------------------------------------------------------------------
(* C21 *)

\* a file name was given for save
SaveGiven == save \notin {None, ""}

\* the names of the files written in one layout
Dumps(layout) == {f.name : f \in {g \in files : g.layout = layout}}

\* C21: whatever save and tm_format are, the matrix get_B_mat returns is the
\* stack of the rows of the detected coordinates; when it returns, the plain
\* dump has been written iff save is given and the per-atom dump, named
\* save + ".tm", iff save is given and tm_format is set; nothing is written
\* before.
C21_SerializationIsSideEffect ==
    /\ pc # "done" => files = {}
    /\ pc = "done" =>
           /\ B_mat = B_rows(coords, bond_inds, bend_inds, dihedral_inds)
           /\ Dumps("% 1.4f") = (IF SaveGiven THEN {save} ELSE {})
           /\ Dumps("column/atom")
                  = (IF SaveGiven /\ tm_format THEN {save \o ".tm"} ELSE {})
           /\ \A f \in files : f.lines = Len(B_mat)

\* get_B_mat has returned a matrix with a dihedral row and has written both
\* dumps
C21_Witness ==
    /\ pc = "done"
    /\ save = "h2o2.bmat"
    /\ tm_format
    /\ Len(dihedral_inds) >= 1
    /\ Len(B_mat) >= 6
    /\ Dumps("column/atom") = {"h2o2.bmat.tm"}
    /\ Cardinality(files) = 2

-----------------------------------------------------------------------------
(* Vocabulary of the loops of make_fragments *)

\* the bond the outer loop stands at
CurrentBond == as_set(Head(bond_iter))

\* the entries of the fragment list that were appended for the current
\* bond: the copies of its atom set.  A fragment made from earlier bonds is
\* no such copy, no bond being listed twice.
AppendedForBond == {k \in 1..Len(fragments) : fragments[k] = CurrentBond}

\* the entries that existed before the outer loop took the current bond
ExistedBefore == (1..Len(fragments)) \ AppendedForBond

\* a step of the inner loop's body
BodyStep == pc = "for_fragment" /\ fragment_pos' = fragment_pos + 1

\* the number of bonds that the outer loop has taken
BondsTaken == Len(bond_indices) - Len(bond_iter)

-----------------------------------------------------------------------------
(* C22 *)

\* C22: while make_fragments processes a bond after the first, an entry is
\* added to the fragment list only if the bond's atom set intersects no
\* fragment that existed before; a bond that intersects such a fragment is
\* unioned into it and adds no entry.
C22_NewFragmentOnlyIfDisjoint ==
    [][BodyStep =>
          /\ Len(fragments') > Len(fragments) =>
                 \A k \in ExistedBefore : fragments[k] \cap CurrentBond = {}
          /\ fragments[fragment_pos] \cap CurrentBond # {} =>
                 CurrentBond \subseteq fragments'[fragment_pos]]_vars

-----------------------------------------------------------------------------
(* C28 *)

\* while the inner loop runs, its iterator is at an entry of the list or
\* just behind the last; the entries appended for the current bond stand
\* behind those that existed before and are not more than those; the list is
\* not longer than 2 to the number of bonds taken
LoopBound ==
    pc = "for_fragment" =>
        /\ fragment_pos \in 1..(Len(fragments) + 1)
        /\ \A k \in AppendedForBond : k > Cardinality(ExistedBefore)
        /\ Cardinality(AppendedForBond) <= Cardinality(ExistedBefore)
        /\ Len(fragments) <= 2 ^ BondsTaken

\* C28: make_fragments returns for every non-empty bond list.  The inner
\* loop appends to the list it iterates over, but a set appended for a bond
\* intersects the bond, so the pass that reaches it appends nothing, and one
\* bond adds at most as many entries as existed before it was taken.
C28_MakeFragmentsTerminates ==
    /\ []LoopBound
    /\ [][BodyStep =>
              /\ Len(fragments') > Len(fragments) =>
                     /\ fragments'[Len(fragments')] \cap CurrentBond # {}
                     /\ fragment_pos \in ExistedBefore
              /\ fragment_pos \in AppendedForBond => fragments' = fragments]_vars
    /\ (pc = "make_fragments" /\ bond_indices # <<>>) ~> (pc = "returned")

\* the iterator of the inner loop stands at a set that was appended for the
\* current bond, behind two fragments that existed before
C28_Witness ==
    /\ pc = "for_fragment"
    /\ fragment_pos \in AppendedForBond
    /\ Cardinality(ExistedBefore) >= 2

-----------------------------------------------------------------------------
(* C29 *)

\* the atoms S are connected by the bonds between atoms of S
ConnectedIn(S, bonds) ==
    LET inside == select(bonds, {b \in as_set(bonds) : as_set(b) \subseteq S})
    IN  S = Reachable({CHOOSE a \in S : TRUE}, inside)

\* C29: every entry of the fragment list, while make_fragments builds it and
\* when it reports it, is a set of atoms that the bonds connect and lies
\* inside one connected component of the bond graph; so the reported number
\* of fragments is not smaller than the number of components, and if it is
\* 1 (no notice printed) the bonded atoms form one component.
C29_FragmentsInsideComponents ==
    /\ \A k \in 1..Len(fragments) :
           /\ ConnectedIn(fragments[k], bond_indices)
           /\ \E C \in Components(bond_indices) : fragments[k] \subseteq C
    /\ pc = "returned" =>
           /\ Len(fragments) >= Cardinality(Components(bond_indices))
           /\ (Len(fragments) = 1 \/ ~flagged) =>
                  Components(bond_indices) = {BondedAtoms(bond_indices)}

\* make_fragments has reported more fragments than the bond graph has
\* components, one of them with three atoms
C29_Witness ==
    /\ pc = "returned"
    /\ Cardinality(Components(bond_indices)) = 2
    /\ Len(fragments) > 2
    /\ \E k \in 1..Len(fragments) : Cardinality(fragments[k]) = 3

-----------------------------------------------------------------------------
(* C23 *)

\* the vectors from the central atom o of the angle (m, o, n) to m and to n
AngleU == Sub(coords[B_mat[1].ind[1] + 1], coords[B_mat[1].ind[2] + 1])
AngleV == Sub(coords[B_mat[1].ind[3] + 1], coords[B_mat[1].ind[2] + 1])

\* two vectors lie along one line
OnOneLine(p, q) == Cross(p, q) = <<0, 0, 0>>

\* the angle is linear: u and v are antiparallel
LinearAngle ==
    /\ AngleU # <<0, 0, 0>>
    /\ AngleV # <<0, 0, 0>>
    /\ OnOneLine(AngleU, AngleV)
    /\ Dot(AngleU, AngleV) < 0

\* the auxiliary vector that get_angle_B has used for the angle
AuxiliaryUsed ==
    tmp_vec(AngleU, Dot(AngleU, AngleU), AngleV, Dot(AngleV, AngleV))

\* C23: whenever u and v are antiparallel, the auxiliary vector get_angle_B
\* uses is parallel neither to u nor to v, so u x auxiliary is not zero and
\* w is defined: (1,-1,1) unless that is parallel to both, and (-1,1,1)
\* then, as for a linear angle along (1,-1,1).
C23_AuxiliaryNotParallel ==
    (RowReturned("get_angle_B") /\ LinearAngle) =>
        /\ ~OnOneLine(AngleU, AuxiliaryUsed)
        /\ ~OnOneLine(AngleV, AuxiliaryUsed)
        /\ B_mat[1].row.root # 0
        /\ AuxiliaryUsed =
               (IF /\ OnOneLine(AngleU, <<1, -1, 1>>)
                   /\ OnOneLine(AngleV, <<1, -1, 1>>)
                THEN <<-1, 1, 1>> ELSE <<1, -1, 1>>)

-----------------------------------------------------------------------------
(* C24 *)

\* the bond contains exactly one of the two outer atoms of the angle and
\* not its central atom
Qualifies(bond, bend) ==
    /\ (bend[1] \in as_set(bond)) # (bend[3] \in as_set(bond))
    /\ bend[2] \notin as_set(bond)

\* the outer atom that a qualifying bond shares with the angle, and the
\* other atom of the bond
SharedOuter(bond, bend) == IF bend[1] \in as_set(bond) THEN bend[1] ELSE bend[3]
TerminalAtom(bond, bend) ==
    CHOOSE x \in as_set(bond) : x # SharedOuter(bond, bend)

\* the angle with the terminal atom put next to the shared atom
ExpectedDihedral(bond, bend) ==
    IF SharedOuter(bond, bend) = bend[1]
    THEN <<TerminalAtom(bond, bend), bend[1], bend[2], bend[3]>>
    ELSE <<bend[1], bend[2], bend[3], TerminalAtom(bond, bend)>>

\* the (bond, angle) pairs that qualify
QualifyingPairs == {k \in 1..PairCount : Qualifies(PairBond(k), PairBend(k))}

\* C24: get_dihedral_indices forms a candidate from a (bond, angle) pair iff
\* the bond contains exactly one outer atom of the angle and not the central
\* one; the candidate is the angle with the other atom of the bond in front
\* when the shared atom is the first outer atom and behind when it is the
\* last.  Every returned dihedral is such a candidate, and every such
\* candidate is returned or has the atoms of a returned one.
C24_CandidateFromBondAndAngle ==
    DihedralsReturned =>
        /\ CandidatePairs = QualifyingPairs
        /\ \A k \in QualifyingPairs :
               /\ Candidate(k) = ExpectedDihedral(PairBond(k), PairBend(k))
               /\ \E d \in 1..Len(dihedral_inds) :
                      as_set(dihedral_inds[d]) = as_set(Candidate(k))
        /\ \A d \in 1..Len(dihedral_inds) :
               \E k \in QualifyingPairs :
                   dihedral_inds[d]
                       = ExpectedDihedral(PairBond(k), PairBend(k))

\* get_dihedral_indices has returned a dihedral with the terminal atom in
\* front and one with the terminal atom behind, and has passed over a bond
\* that contains the central atom of an angle
C24_Witness ==
    /\ DihedralsReturned
    /\ \E d, e \in 1..Len(dihedral_inds) :
           /\ \E k \in 1..Len(bend_inds) :
                  bend_inds[k] = SubSeq(dihedral_inds[d], 2, 4)
           /\ \E k \in 1..Len(bend_inds) :
                  bend_inds[k] = SubSeq(dihedral_inds[e], 1, 3)
    /\ \E k \in (1..PairCount) \ QualifyingPairs :
           /\ PairBend(k)[2] \in as_set(PairBond(k))
           /\ PairBend(k)[1] \notin as_set(PairBond(k))
           /\ PairBend(k)[3] \notin as_set(PairBond(k))

-----------------------------------------------------------------------------
(* C30 *)

\* the chains a-b-c-d of four distinct atoms with {a,b}, {b,c} and {c,d}
\* among the bonds
BondedChains ==
    {ch \in BondedAtoms(bond_inds) \X BondedAtoms(bond_inds)
               \X BondedAtoms(bond_inds) \X BondedAtoms(bond_inds) :
        /\ Cardinality({ch[1], ch[2], ch[3], ch[4]}) = 4
        /\ {{ch[1], ch[2]}, {ch[2], ch[3]}, {ch[3], ch[4]}} \subseteq BondSets}

\* C30: for every chain a-b-c-d of four distinct atoms whose three links
\* are bonds, get_dihedral_indices, fed with the bonds and the angles of
\* get_bending_indices, returns a dihedral with the atom set {a,b,c,d}.
C30_DihedralForEveryChain ==
    DihedralsReturned =>
        \A ch \in BondedChains :
            \E d \in 1..Len(dihedral_inds) :
                as_set(dihedral_inds[d]) = {ch[1], ch[2], ch[3], ch[4]}

\* get_dihedral_indices has returned the dihedrals of bonds with a chain
\* whose two angles both list the inner atom of the chain last, and with
\* two chains over the same four atoms
C30_Witness ==
    /\ DihedralsReturned
    /\ \E ch \in BondedChains :
           /\ \E k \in 1..Len(bend_inds) :
                  bend_inds[k] = <<ch[1], ch[2], ch[3]>>
           /\ \E k \in 1..Len(bend_inds) :
                  bend_inds[k] = <<ch[4], ch[3], ch[2]>>
    /\ \E ch, other \in BondedChains :
           /\ as_set(ch) = as_set(other)
           /\ other # ch
           /\ other # <<ch[4], ch[3], ch[2], ch[1]>>

-----------------------------------------------------------------------------
(* C25 *)

\* the pairs of distinct bond sets that get_bending_indices hands to
\* sort_by_central
SortByCentralCalls ==
    {pair \in BondSets \X BondSets :
        pair[1] # pair[2] /\ forms_angle(pair[1], pair[2])}

\* C25: on every bond array that get_bond_indices can return,
\* get_bending_indices raises neither the AssertionError of sort_by_central
\* nor the ValueError of the unpacking of the terminals: the two bond sets
\* of every call share exactly one atom and leave exactly two others.
C25_SortByCentralNeverFails ==
    pc # "get_bending_indices" =>
        /\ raised \notin {"AssertionError", "ValueError"}
        /\ pc # "raised"
        /\ \A pair \in SortByCentralCalls :
               /\ Cardinality(pair[1] \cap pair[2]) = 1
               /\ Cardinality((pair[1] \cup pair[2])
                                  \ (pair[1] \cap pair[2])) = 2
               /\ sort_by_central(pair[1], pair[2], hash_rank).raised = "none"

\* get_bending_indices has returned after calls of sort_by_central on
\* some pairs of bonds and none on a pair of bonds without a common atom
C25_Witness ==
    /\ pc = "get_dihedral_indices"
    /\ Len(bend_inds) >= 2
    /\ Cardinality(SortByCentralCalls) >= 4
    /\ \E b1, b2 \in BondSets : b1 \cap b2 = {}

-----------------------------------------------------------------------------
(* C26 *)

\* every quotient of the row has a divisor other than zero
RowFinite(row) ==
    /\ row.root # 0
    /\ \A a \in 0..(Len(row.blocks) - 1) :
           \A i \in 1..Len(Block(row, a)) : Block(row, a)[i].den # 0

\* the position of the i-th atom of the coordinate of the returned row
AtomAt(i) == coords[B_mat[1].ind[i] + 1]

\* two atoms that follow each other in the coordinate are at one position,
\* so that the reference vector between them has the length zero
ZeroLengthReference ==
    \E i \in 1..(Len(B_mat[1].ind) - 1) : AtomAt(i) = AtomAt(i + 1)

\* the angle at the atom at q between the atoms at p and r is 180 degrees
Straight(p, q, r) ==
    /\ p # q
    /\ r # q
    /\ OnOneLine(Sub(p, q), Sub(r, q))
    /\ Dot(Sub(p, q), Sub(r, q)) < 0

\* the returned row is that of a dihedral (m, o, p, n) in which the angle
\* m-o-p or the angle o-p-n is exactly linear
LinearDihedral ==
    /\ B_mat[1].builder = "get_dihedral_B"
    /\ \/ Straight(AtomAt(1), AtomAt(2), AtomAt(3))
       \/ Straight(AtomAt(2), AtomAt(3), AtomAt(4))

\* the coordinate of the returned row is degenerate
DegenerateCoordinate == ZeroLengthReference \/ LinearDihedral

\* a row builder called on its own has returned
AnyRowReturned ==
    \E builder \in {"get_bond_B", "get_angle_B", "get_dihedral_B"} :
        RowReturned(builder)

\* C26: a row builder called for a degenerate coordinate (two bonded atoms
\* at one position, or a dihedral with one of its two angles exactly
\* linear) raises nothing and returns a full row with NaN or Inf in it,
\* and only the rows of degenerate coordinates are not finite.
C26_DegenerateRowsNotFinite ==
    AnyRowReturned =>
        /\ raised = "none"
        /\ flatten_len(B_mat[1].row) = 3 * Len(coords)
        /\ DegenerateCoordinate <=> ~RowFinite(B_mat[1].row)

-----------------------------------------------------------------------------
(* C27 *)

=============================================================================
